---------------------------- MODULE Spec2Model ----------------------------
(***************************************************************************)
(* url_status_checker.py: main validates the arguments and the URLs, then  *)
(* check_urls submits one get_url_status call per URL to a thread pool of  *)
(* min(len(urls), 10) workers and collects the outcomes as they complete.  *)
(*                                                                         *)
(* Python values are modelled as follows.  An Optional[int] is a tuple:    *)
(* <<>> is None and <<n>> is the integer n.  A URL is a string whose       *)
(* characters are given by Chars.  The redirection description is a tuple  *)
(* of its text and, when redirected, the final URL.  Time is a worker-local*)
(* discrete clock.  The verbose flag, the response headers, the proxy, the *)
(* user agent and the output file are not modelled.  Each future carries   *)
(* history fields the code does not have: gets, sleeps, hist, log, starts  *)
(* and ends (the clock at the start and end of each requests.get), before  *)
(* (the futures finished earlier, for one that finishes during collection) *)
(* and answer (the response requests.get returned, if any).                *)
(***************************************************************************)
EXTENDS Integers, Sequences, FiniteSets, TLC

VARIABLES
    args,       \* the parsed command line (argparse Namespace)
    net,        \* environment: the results requests.get may give, per URL position
    pc,         \* position of the main thread
    reported,   \* what main logged as invalid: <<>> or the offending items
    max_workers,\* size of the ThreadPoolExecutor
    futures,    \* the submitted calls, in submission order
    finished,   \* as_completed: the futures found finished when it was called
    waiter,     \* as_completed: the futures that finished later, in that order
    results     \* check_urls' result list

vars == <<args, net, pc, reported, max_workers, futures, finished, waiter,
          results>>

\* ------------------------------------------------------------- bounds
MaxUrls == 2        \* longest URL list of the small configurations
MaxRetries == 2     \* largest retry ceiling drawn
ManyUrls == 11      \* length of the URL list that overfills the pool
AttemptTicks == 1   \* clock ticks one requests.get call takes

\* -------------------------------------------------- program constants
PoolCap == 10           \* ThreadPoolExecutor(max_workers=min(len(urls), 10))

\* ----------------------------------------------------- Python values
None == <<>>
Some(n) == <<n>>

\* `if x:` for an Optional[int]: None and 0 are falsy.
Truthy(x) == x # None /\ x[1] # 0

Min(a, b) == IF a < b THEN a ELSE b

\* ------------------------------------------------------------- URLs
\* The characters of the URL strings the model draws from.
Chars(u) ==
    CASE u = "h://a"  -> <<"h", ":", "/", "/", "a">>
      [] u = "h://b"  -> <<"h", ":", "/", "/", "b">>
      [] u = "n-a"    -> <<"n", "-", "a">>
      [] u = "h:a"    -> <<"h", ":", "a">>
      [] u = "//a"    -> <<"/", "/", "a">>
      [] u = "h://[a" -> <<"h", ":", "/", "/", "[", "a">>

ValidUrls == {"h://a", "h://b"}
InvalidUrls == {"n-a", "h:a", "//a", "h://[a"}

Letters == {"h", "a", "b", "n"}
\* urllib.parse.scheme_chars: letters, digits and "+-."
SchemeChars == Letters \cup {"1", "+", "-", "."}

\* s.find(c) from position `from` (1-based); 0 when absent.
RECURSIVE Find(_, _, _)
Find(s, cs, from) ==
    IF from > Len(s) THEN 0
    ELSE IF s[from] \in cs THEN from
    ELSE Find(s, cs, from + 1)

\* urllib.parse.urlsplit, reduced to the scheme and netloc it returns;
\* error is TRUE where urlsplit raises ValueError (unbalanced bracket).
urlparse(u) ==
    LET s == Chars(u)
        i == Find(s, {":"}, 1)
        hasScheme == /\ i > 1
                     /\ s[1] \in Letters
                     /\ \A k \in 1..(i - 1) : s[k] \in SchemeChars
        scheme == IF hasScheme THEN SubSeq(s, 1, i - 1) ELSE <<>>
        rest == IF hasScheme THEN SubSeq(s, i + 1, Len(s)) ELSE s
        hasNetloc == Len(rest) >= 2 /\ rest[1] = "/" /\ rest[2] = "/"
        delim == Find(rest, {"/", "?", "#"}, 3)
        netloc == IF ~hasNetloc THEN <<>>
                  ELSE IF delim = 0 THEN SubSeq(rest, 3, Len(rest))
                  ELSE SubSeq(rest, 3, delim - 1)
        open == \E k \in 1..Len(netloc) : netloc[k] = "["
        close == \E k \in 1..Len(netloc) : netloc[k] = "]"
    IN  [scheme |-> scheme, netloc |-> netloc, error |-> (open # close)]

\* all([result.scheme, result.netloc]); ValueError gives False.
validate_url(u) ==
    LET result == urlparse(u)
    IN  IF result.error THEN FALSE
        ELSE result.scheme # <<>> /\ result.netloc # <<>>

\* Mutant of invalid_urls: only the first URL is validated.
invalid_urls_first_only(urls) ==
    IF urls = <<>> \/ validate_url(Head(urls)) THEN <<>> ELSE <<Head(urls)>>

\* [url for url in args.urls if not validate_url(url)]
RECURSIVE invalid_urls(_)
invalid_urls(urls) ==
    IF urls = <<>> THEN <<>>
    ELSE (IF validate_url(Head(urls)) THEN <<>> ELSE <<Head(urls)>>)
         \o invalid_urls(Tail(urls))

\* Mutant of validate_args: a timeout of 0 is let through.
validate_args_zero_timeout(a) ==
    IF a.timeout < 0 THEN "Timeout must be a positive integer."
    ELSE IF a.retries < 0 THEN "Retries cannot be negative."
    ELSE IF a.retry_delay < 0 THEN "Retry delay cannot be negative."
    ELSE "ok"

\* validate_args: the first failing check, or "ok".
validate_args(a) ==
    IF a.timeout <= 0 THEN "Timeout must be a positive integer."
    ELSE IF a.retries < 0 THEN "Retries cannot be negative."
    ELSE IF a.retry_delay < 0 THEN "Retry delay cannot be negative."
    ELSE "ok"

\* ------------------------------------------------------- the transport
Timeout == [kind |-> "Timeout"]
RequestException == [kind |-> "RequestException"]
Response(status, final) == [kind |-> "ok", status_code |-> status, url |-> final]

StatusCodes == {200, 404}
RedirectTarget == "h://b"

\* What requests.get(url, allow_redirects=True, ...) can do: raise Timeout,
\* raise another RequestException, or return a response whose url is the
\* requested one or the end of a redirect chain.
Responses(u) ==
    {Timeout, RequestException}
        \cup {Response(s, u) : s \in StatusCodes}
        \cup {Response(200, RedirectTarget)}

\* A network on which every request is answered 200 at once.
QuietNet(urls) == [i \in 1..Len(urls) |-> {Response(200, urls[i])}]

\* A network on which anything can happen to every request.
OpenNet(urls) == [i \in 1..Len(urls) |-> Responses(urls[i])]

\* The message of the logging call a transport error leads to.
error_log(r) ==
    IF r.kind = "Timeout" THEN "Timeout occurred" ELSE "Error for"

\* ------------------------------------------------------------ futures
NoReturn == [status_code |-> None, redirection |-> <<>>, load_time |-> None]

\* executor.submit(get_url_status, url, ...): a pending future.
NewFuture(u) ==
    [url |-> u, st |-> "queued", attempt |-> 0, gets |-> 0, sleeps |-> 0,
     hist |-> <<>>, log |-> "", start_time |-> 0, clock |-> 0,
     starts |-> <<>>, ends |-> <<>>, before |-> {}, answer |-> <<>>,
     final_url |-> "", ret |-> NoReturn, yielded |-> FALSE]

N == Len(args.urls)
Submitted == 1..Len(futures)
InFlight == {i \in Submitted : futures[i].st \in {"attempting", "sleeping"}}
Queued == {i \in Submitted : futures[i].st = "queued"}

\* ---------------------------------------------------------------- Init
UrlLists(pool, n) == UNION {[1..k -> pool] : k \in 1..n}

\* The gates: every kind of argument and URL list, on a quiet network.
GateArgSpace ==
    [urls : UrlLists(ValidUrls \cup InvalidUrls, MaxUrls),
     timeout : {0, 5},
     retries : {-1, 0, 1},
     retry_delay : {-1, 0, 2},
     status_filter : {None}]

\* The probes: accepted arguments and URLs, on an open network.
ProbeArgSpace ==
    [urls : UrlLists(ValidUrls, MaxUrls),
     timeout : {5},
     retries : 0..MaxRetries,
     retry_delay : {2},
     status_filter : {None}]

\* The filter: every kind of --status-filter, on an open network.
FilterArgSpace ==
    [urls : UrlLists(ValidUrls, MaxUrls),
     timeout : {5},
     retries : {0, 1},
     retry_delay : {2},
     status_filter : {Some(0), Some(200), Some(404)}]

\* A list longer than the pool on a slow network: the first PoolCap - 2
\* requests get no answer within the run, the others time out or answer 200.
PoolArgSpace ==
    [urls : {[i \in 1..ManyUrls |-> "h://a"]},
     timeout : {5},
     retries : {2},
     retry_delay : {0},
     status_filter : {None}]

SlowNet(urls) ==
    [i \in 1..Len(urls) |->
        IF i <= PoolCap - 2 THEN {}
        ELSE {Timeout, Response(200, urls[i])}]

Init ==
    /\ \/ /\ args \in GateArgSpace
          /\ net = QuietNet(args.urls)
       \/ /\ args \in ProbeArgSpace \cup FilterArgSpace
          /\ net = OpenNet(args.urls)
       \/ /\ args \in PoolArgSpace
          /\ net = SlowNet(args.urls)
    /\ pc = "main"
    /\ reported = <<>>
    /\ max_workers = 0
    /\ futures = <<>>
    /\ finished = {}
    /\ waiter = <<>>
    /\ results = <<>>

\* ---------------------------------------------------------------- main
\* if not validate_args(args): return
ArgsRejected ==
    /\ pc = "main"
    /\ validate_args(args) # "ok"
    /\ pc' = "aborted"
    /\ reported' = <<validate_args(args)>>
    /\ UNCHANGED <<args, net, max_workers, futures, finished, waiter, results>>

ArgsAccepted ==
    /\ pc = "main"
    /\ validate_args(args) = "ok"
    /\ pc' = "urls"
    /\ UNCHANGED <<args, net, reported, max_workers, futures, finished, waiter,
                   results>>

\* if invalid_urls: logging.error(...); return
UrlsRejected ==
    /\ pc = "urls"
    /\ invalid_urls(args.urls) # <<>>
    /\ pc' = "aborted"
    /\ reported' = invalid_urls(args.urls)
    /\ UNCHANGED <<args, net, max_workers, futures, finished, waiter, results>>

\* Mutant of pool_size: one worker per URL, without the cap.
pool_size_uncapped(n) == n

\* max_workers=min(len(urls), 10)
pool_size(n) == Min(n, PoolCap)

\* check_urls(...) is called: results = [], the executor is created.

CallCheckUrls ==
    /\ pc = "urls"
    /\ invalid_urls(args.urls) = <<>>
    /\ pc' = "submit"
    /\ max_workers' = pool_size(N)
    /\ results' = <<>>
    /\ UNCHANGED <<args, net, reported, futures, finished, waiter>>

\* ---------------------------------------------------------- check_urls
\* One executor.submit of the dict comprehension, in list order.
Submit ==
    /\ pc = "submit"
    /\ Len(futures) < N
    /\ futures' = Append(futures, NewFuture(args.urls[Len(futures) + 1]))
    /\ UNCHANGED <<args, net, pc, reported, max_workers, finished, waiter,
                   results>>

\* The comprehension is over and as_completed(futures) is called: it notes
\* the futures that are finished already and installs its waiter.
AllSubmitted ==
    /\ pc = "submit"
    /\ Len(futures) = N
    /\ pc' = "collect"
    /\ finished' = {i \in Submitted : futures[i].st = "done"}
    /\ waiter' = <<>>
    /\ UNCHANGED <<args, net, reported, max_workers, futures, results>>

\* ------------------------------------------------------ get_url_status
Failure == [status_code |-> None, redirection |-> <<"Max retries reached">>,
            load_time |-> None]

\* Mutant of redirection_of: the description names the requested URL.
redirection_of_requested(url, final_url) ==
    IF url # final_url THEN <<"Redirected to: ", url>>
    ELSE <<"No redirection">>

\* if url != final_url: "Redirected to: {final_url}" else "No redirection"
redirection_of(url, final_url) ==
    IF url # final_url THEN <<"Redirected to: ", final_url>>
    ELSE <<"No redirection">>

\* Mutant of loop_head: the loop condition is `attempt <= retries`.
loop_head_one_more(f, retries) ==
    IF f.attempt <= retries
    THEN [f EXCEPT !.st = "attempting", !.gets = @ + 1,
                   !.starts = Append(@, f.clock)]
    ELSE [f EXCEPT !.st = "done", !.ret = Failure]

\* `while attempt < retries:` is evaluated: either requests.get is issued
\* or the loop is left and line 42 returns.
loop_head(f, retries) ==
    IF f.attempt < retries
    THEN [f EXCEPT !.st = "attempting", !.gets = @ + 1,
                   !.starts = Append(@, f.clock)]
    ELSE [f EXCEPT !.st = "done", !.ret = Failure]

\* Entry of get_url_status: start_time = time.time(); attempt = 0.
enter(f, retries) ==
    loop_head([f EXCEPT !.start_time = f.clock, !.attempt = 0], retries)

\* Mutant of on_response: the success path does not return, and the loop
\* goes round again.
on_response_no_return(f, r) ==
    [f EXCEPT !.clock = @ + AttemptTicks,
              !.ends = Append(@, f.clock + AttemptTicks),
              !.starts = Append(@, f.clock + AttemptTicks),
              !.answer = <<r>>,
              !.hist = Append(@, "ok"),
              !.log = "Checked",
              !.final_url = r.url,
              !.st = "attempting",
              !.gets = @ + 1]

\* requests.get returned a response: lines 19-29.
on_response(f, r) ==
    LET now == f.clock + AttemptTicks
    IN  [f EXCEPT !.clock = now,
                  !.ends = Append(@, now),
                  !.answer = <<r>>,
                  !.hist = Append(@, "ok"),
                  !.log = "Checked",
                  !.final_url = r.url,
                  !.st = "done",
                  !.ret = [status_code |-> Some(r.status_code),
                           redirection |-> redirection_of(f.url, r.url),
                           load_time |-> Some(now - f.start_time)]]

\* Mutant of on_error: the outcome returned after the last attempt describes
\* the error of that attempt.
on_error_reports_cause(f, r, retries) ==
    LET g == [f EXCEPT !.clock = @ + AttemptTicks,
                       !.ends = Append(@, f.clock + AttemptTicks),
                       !.hist = Append(@, "error"),
                       !.log = error_log(r),
                       !.attempt = @ + 1]
    IN  IF g.attempt < retries
        THEN [g EXCEPT !.st = "sleeping", !.sleeps = @ + 1]
        ELSE [g EXCEPT !.st = "done", !.log = "Max retries reached",
                       !.ret = [Failure EXCEPT
                                   !.redirection = <<error_log(r)>>]]

\* Mutant of on_error: a Timeout is retried, any other error is final.
on_error_retry_timeout_only(f, r, retries) ==
    LET g == [f EXCEPT !.clock = @ + AttemptTicks,
                       !.ends = Append(@, f.clock + AttemptTicks),
                       !.hist = Append(@, "error"),
                       !.log = error_log(r),
                       !.attempt = @ + 1]
    IN  IF g.attempt < retries /\ r.kind = "Timeout"
        THEN [g EXCEPT !.st = "sleeping", !.sleeps = @ + 1]
        ELSE [g EXCEPT !.st = "done", !.log = "Max retries reached",
                       !.ret = Failure]

\* Mutant of on_error: `attempt <= retries`, so the worker also sleeps
\* after the last attempt.
on_error_sleep_after_last(f, r, retries) ==
    LET g == [f EXCEPT !.clock = @ + AttemptTicks,
                       !.ends = Append(@, f.clock + AttemptTicks),
                       !.hist = Append(@, "error"),
                       !.log = error_log(r),
                       !.attempt = @ + 1]
    IN  IF g.attempt <= retries
        THEN [g EXCEPT !.st = "sleeping", !.sleeps = @ + 1]
        ELSE [g EXCEPT !.st = "done", !.log = "Max retries reached",
                       !.ret = Failure]

\* requests.get raised: the except clauses only log; then lines 36-41.
on_error(f, r, retries) ==
    LET g == [f EXCEPT !.clock = @ + AttemptTicks,
                       !.ends = Append(@, f.clock + AttemptTicks),
                       !.hist = Append(@, "error"),
                       !.log = error_log(r),
                       !.attempt = @ + 1]
    IN  IF g.attempt < retries
        THEN [g EXCEPT !.st = "sleeping", !.sleeps = @ + 1]
        ELSE [g EXCEPT !.st = "done", !.log = "Max retries reached",
                       !.ret = Failure]

\* Mutant of on_wake: the worker does not wait for the retry delay.
on_wake_no_delay(f, retries, retry_delay) ==
    loop_head(f, retries)

\* time.sleep(retry_delay) returns and the loop condition is evaluated again.
on_wake(f, retries, retry_delay) ==
    loop_head([f EXCEPT !.clock = @ + retry_delay], retries)

\* Mutant of Run: the worker that finishes a call appends its outcome to the
\* shared result list itself.
Run_worker_appends(i, g) ==
    /\ futures' = [futures EXCEPT ![i] = g]
    /\ waiter' = IF pc = "collect" /\ g.st = "done" THEN Append(waiter, i)
                 ELSE waiter
    /\ results' = IF g.st = "done" THEN Append(results, g.ret) ELSE results
    /\ UNCHANGED <<args, net, pc, reported, max_workers, finished>>

\* The futures that were finished already when call i, now in state g,
\* finishes under the eyes of as_completed (history).
finished_before(i, g) ==
    IF pc = "collect" /\ g.st = "done"
    THEN {j \in Submitted \ {i} : futures[j].st = "done"}
    ELSE {}

\* Mutant of Run: the waiter's list is kept newest first.
Run_newest_first(i, g) ==
    /\ futures' = [futures EXCEPT ![i] =
                      [g EXCEPT !.before = finished_before(i, g)]]
    /\ waiter' = IF pc = "collect" /\ g.st = "done" THEN <<i>> \o waiter
                 ELSE waiter
    /\ UNCHANGED <<args, net, pc, reported, max_workers, finished, results>>

\* Future i is set to g by its worker: once as_completed waits, a future
\* that finishes is added to the waiter's list.
Run(i, g) ==
    /\ futures' = [futures EXCEPT ![i] =
                      [g EXCEPT !.before = finished_before(i, g)]]
    /\ waiter' = IF pc = "collect" /\ g.st = "done" THEN Append(waiter, i)
                 ELSE waiter
    /\ UNCHANGED <<args, net, pc, reported, max_workers, finished, results>>

\* A free worker thread takes the oldest queued call and runs it up to its
\* first blocking point.
StartProbe(i) ==
    /\ pc \in {"submit", "collect"}
    /\ i \in Queued
    /\ \A j \in Queued : i <= j
    /\ Cardinality(InFlight) < max_workers
    /\ Run(i, enter(futures[i], args.retries))

\* The pending requests.get of call i ends with r.
Respond(i, r) ==
    /\ i \in Submitted
    /\ futures[i].st = "attempting"
    /\ r \in net[i]
    /\ Run(i, IF r.kind = "ok" THEN on_response(futures[i], r)
              ELSE on_error(futures[i], r, args.retries))

\* The retry delay of call i is over.
WakeUp(i) ==
    /\ i \in Submitted
    /\ futures[i].st = "sleeping"
    /\ Run(i, on_wake(futures[i], args.retries, args.retry_delay))

\* ------------------------------------------- check_urls: the collection
\* Mutant of record_of: the Error field is set on every record.
record_of_always_error(url, ret) ==
    IF ret.status_code = None
    THEN [URL |-> url, Error |-> ret.redirection]
    ELSE [URL |-> url, Error |-> ret.redirection,
          Status_Code |-> ret.status_code[1],
          Redirection |-> ret.redirection,
          Load_Time |-> <<ret.load_time[1], "seconds">>]

\* The record built at lines 57-63 from the future's return value.
record_of(url, ret) ==
    IF ret.status_code = None
    THEN [URL |-> url, Error |-> ret.redirection]
    ELSE [URL |-> url, Status_Code |-> ret.status_code[1],
          Redirection |-> ret.redirection,
          Load_Time |-> <<ret.load_time[1], "seconds">>]

\* Mutant of skipped: the filter is compared even when it is not set.
skipped_unset_filter(status_code, status_filter) ==
    status_code # status_filter

\* Mutant of skipped: failed probes are left out of the results.
skipped_failures(status_code, status_filter) ==
    \/ status_code = None
    \/ Truthy(status_filter) /\ status_code # status_filter

\* if status_filter and status_code != status_filter: continue
skipped(status_code, status_filter) ==
    Truthy(status_filter) /\ status_code # status_filter

\* Mutant of yieldable: only the futures that were finished when as_completed
\* was called are ever yielded.
yieldable_snapshot_only == finished

\* The future as_completed yields next: first those that were finished when
\* it was called, in no particular order, then the others as they finish.
yieldable ==
    IF finished # {} THEN finished
    ELSE IF waiter # <<>> THEN {Head(waiter)}
    ELSE {}

\* Mutant of Collect: the record of a future that was finished already when
\* as_completed was called is not appended.
Collect_late_only(i) ==
    /\ pc = "collect"
    /\ i \in yieldable
    /\ finished' = finished \ {i}
    /\ waiter' = IF finished # {} THEN waiter ELSE Tail(waiter)
    /\ futures' = [futures EXCEPT ![i].yielded = TRUE]
    /\ results' =
          IF finished # {}
             \/ skipped(futures[i].ret.status_code, args.status_filter)
          THEN results
          ELSE Append(results, record_of(args.urls[i], futures[i].ret))
    /\ UNCHANGED <<args, net, pc, reported, max_workers>>

\* One iteration of `for future in as_completed(futures)`.
Collect(i) ==
    /\ pc = "collect"
    /\ i \in yieldable
    /\ finished' = finished \ {i}
    /\ waiter' = IF finished # {} THEN waiter ELSE Tail(waiter)
    /\ futures' = [futures EXCEPT ![i].yielded = TRUE]
    /\ results' =
          IF skipped(futures[i].ret.status_code, args.status_filter)
          THEN results
          ELSE Append(results, record_of(args.urls[i], futures[i].ret))
    /\ UNCHANGED <<args, net, pc, reported, max_workers>>

\* as_completed is exhausted and the executor is shut down.
Return ==
    /\ pc = "collect"
    /\ \A i \in Submitted : futures[i].yielded
    /\ pc' = "done"
    /\ UNCHANGED <<args, net, reported, max_workers, futures, finished, waiter,
                   results>>

Next ==
    \/ ArgsRejected
    \/ ArgsAccepted
    \/ UrlsRejected
    \/ CallCheckUrls
    \/ Submit
    \/ AllSubmitted
    \/ \E i \in 1..N : StartProbe(i)
    \/ \E i \in 1..N : \E r \in net[i] : Respond(i, r)
    \/ \E i \in 1..N : WakeUp(i)
    \/ \E i \in 1..N : Collect(i)
    \/ Return

Spec == Init /\ [][Next]_vars

\* ------------------------------------------------------------- fairness
\* The steps of the main thread, and the steps of the call for URL i: a pool
\* worker picking it up, its requests.get ending, its time.sleep ending.
MainStep ==
    \/ ArgsRejected \/ ArgsAccepted \/ UrlsRejected \/ CallCheckUrls
    \/ Submit \/ AllSubmitted \/ Return
    \/ \E i \in 1..N : Collect(i)

WorkerStep(i) ==
    /\ i \in 1..N
    /\ \/ StartProbe(i)
       \/ \E r \in net[i] : Respond(i, r)
       \/ WakeUp(i)

\* A network on which every request times out, fails otherwise or is
\* answered 200, and none stays without an answer.
FlakyNet(urls) ==
    [i \in 1..Len(urls) |-> {Timeout, RequestException, Response(200, urls[i])}]

\* Accepted arguments with every retry ceiling, over one URL given once or
\* several times.
LiveArgSpace ==
    [urls : UrlLists({"h://a"}, MaxUrls),
     timeout : {5},
     retries : 0..MaxRetries,
     retry_delay : {2},
     status_filter : {None, Some(404)}]

\* The gates on the quiet network and the probes on the flaky one.
InitLive ==
    /\ \/ /\ args \in GateArgSpace
          /\ net = QuietNet(args.urls)
       \/ /\ args \in LiveArgSpace
          /\ net = FlakyNet(args.urls)
    /\ pc = "main"
    /\ reported = <<>>
    /\ max_workers = 0
    /\ futures = <<>>
    /\ finished = {}
    /\ waiter = <<>>
    /\ results = <<>>

\* The main thread keeps running, the pool keeps its workers running, and
\* every requests.get and time.sleep call returns.
SpecLive ==
    /\ InitLive
    /\ [][Next]_vars
    /\ WF_vars(MainStep)
    /\ \A i \in 1..MaxUrls : WF_vars(WorkerStep(i))

\* =================================================================
\* Properties
\* =================================================================
Done(i) == i \in Submitted /\ futures[i].st = "done"
Succeeded(i) == Done(i) /\ futures[i].ret.status_code # None
Failed(i) == Done(i) /\ futures[i].ret.status_code = None
\* Every requests.get of call i raised, and at least one was issued.
AlwaysFailed(i) ==
    /\ i \in Submitted
    /\ futures[i].hist # <<>>
    /\ \A k \in 1..Len(futures[i].hist) : futures[i].hist[k] = "error"

IsSuccessRecord(rec) == DOMAIN rec = {"URL", "Status_Code", "Redirection", "Load_Time"}
IsFailureRecord(rec) == DOMAIN rec = {"URL", "Error"}
RecordsOf(u) == {k \in 1..Len(results) : results[k].URL = u}
EntriesOf(u) == {i \in 1..N : args.urls[i] = u}

\* C1: with no status filter, the result list never holds more records of a
\* URL than entries of it were submitted, and when check_urls has returned it
\* holds exactly one record per submitted entry, a Failure record for each
\* entry whose probe failed and a Success record for each that succeeded.
C1_OneRecordPerEntry ==
    args.status_filter = None =>
        /\ \A u \in ValidUrls :
              Cardinality(RecordsOf(u)) <= Cardinality(EntriesOf(u))
        /\ pc = "done" =>
              /\ Len(results) = N
              /\ \A u \in ValidUrls :
                    /\ Cardinality(RecordsOf(u)) = Cardinality(EntriesOf(u))
                    /\ Cardinality({k \in RecordsOf(u) : IsFailureRecord(results[k])})
                         = Cardinality({i \in EntriesOf(u) : Failed(i)})

\* C1 witness: a finished run over a duplicated URL, one probe failed and
\* one succeeded, both recorded.
C1_Witness ==
    /\ pc = "done"
    /\ args.status_filter = None
    /\ N = 2
    /\ args.urls[1] = args.urls[2]
    /\ Failed(1)
    /\ Succeeded(2)
    /\ Len(results) = 2

\* C2: a probe all of whose attempts fail sleeps once after each attempt but
\* the last: while attempting it has issued one GET more than it has slept,
\* while sleeping as many, and it ends after exactly `retries` GETs and
\* `retries - 1` sleeps of retry_delay with the Failure outcome.
C2_AlwaysFailing ==
    \A i \in Submitted :
        AlwaysFailed(i) /\ args.retries >= 1 =>
            LET f == futures[i]
            IN  /\ f.st = "attempting" => f.gets = f.sleeps + 1
                /\ f.st = "sleeping" => f.gets = f.sleeps /\ f.gets < args.retries
                /\ f.st = "done" =>
                      /\ f.gets = args.retries
                      /\ f.sleeps = args.retries - 1
                      /\ f.clock - f.start_time =
                            args.retries * AttemptTicks
                              + (args.retries - 1) * args.retry_delay
                      /\ f.ret = Failure

\* C2 witness: a probe that failed twice or more and has returned.
C2_Witness ==
    \E i \in Submitted :
        /\ AlwaysFailed(i)
        /\ futures[i].st = "done"
        /\ args.retries >= 2
        /\ futures[i].sleeps >= 1
        /\ args.retry_delay > 0

\* C3: a probe whose first GET is answered has returned a Success outcome
\* after exactly one GET and no sleep, and no retry delay has elapsed.
C3_FirstAttemptSucceeds ==
    \A i \in Submitted :
        (futures[i].hist # <<>> /\ futures[i].hist[1] = "ok") =>
            /\ Succeeded(i)
            /\ futures[i].gets = 1
            /\ futures[i].sleeps = 0
            /\ futures[i].hist = <<"ok">>
            /\ futures[i].clock - futures[i].start_time = AttemptTicks

\* C3 witness: a probe answered at once, with retries to spare.
C3_Witness ==
    \E i \in Submitted :
        /\ futures[i].hist = <<"ok">>
        /\ args.retries >= 2
        /\ args.retry_delay > 0
        /\ Succeeded(i)

AnyInvalid == \E k \in 1..N : ~validate_url(args.urls[k])
ArgMessages == {"Timeout must be a positive integer.",
                "Retries cannot be negative.",
                "Retry delay cannot be negative."}
Occurrences(seq, x) == Cardinality({k \in 1..Len(seq) : seq[k] = x})

\* C4: when some URL of the list fails validate_url, nothing is ever
\* dispatched: check_urls is not called, no future is submitted (so no GET is
\* issued, for the valid URLs either), no record is produced, and once main
\* has stopped at the URL gate it has reported exactly the failing entries.
C4_InvalidUrlAborts ==
    AnyInvalid =>
        /\ pc \in {"main", "urls", "aborted"}
        /\ max_workers = 0
        /\ futures = <<>>
        /\ results = <<>>
        /\ (pc = "aborted" /\ validate_args(args) = "ok") =>
              \A u \in ValidUrls \cup InvalidUrls :
                  Occurrences(reported, u) =
                      IF validate_url(u) THEN 0 ELSE Occurrences(args.urls, u)

\* C4 witness: a valid URL followed by an invalid one, main stopped at the
\* URL gate and named the invalid one only.
C4_Witness ==
    /\ pc = "aborted"
    /\ N = 2
    /\ validate_url(args.urls[1])
    /\ ~validate_url(args.urls[2])
    /\ reported = <<args.urls[2]>>

BadArgs == args.timeout <= 0 \/ args.retries < 0 \/ args.retry_delay < 0

\* C5: with timeout <= 0, retries < 0 or retry_delay < 0 main stops at the
\* argument gate: the URL gate is not reached, check_urls is not called and
\* no future is submitted; with none of the three, main is never stopped at
\* the argument gate (if it stopped, it is for an invalid URL).
C5_ArgumentGate ==
    /\ BadArgs =>
          /\ pc \in {"main", "aborted"}
          /\ max_workers = 0
          /\ futures = <<>>
          /\ results = <<>>
          /\ pc = "aborted" => Len(reported) = 1 /\ reported[1] \in ArgMessages
    /\ ~BadArgs =>
          (pc = "aborted" => AnyInvalid /\ reported[1] \notin ArgMessages)

\* C5 witness: stopped for the retry delay alone, the last of the checks.
C5_Witness ==
    /\ pc = "aborted"
    /\ args.timeout > 0
    /\ args.retries = 0
    /\ args.retry_delay < 0
    /\ reported = <<"Retry delay cannot be negative.">>

\* C6: whenever a status filter is given, whatever its value, the final
\* result list holds exactly the Success outcomes whose status code is the
\* filter's: only such records, and one for each such probe.
C6_FilterKeepsExactlyMatches ==
    (pc = "done" /\ args.status_filter # None) =>
        /\ \A k \in 1..Len(results) :
              /\ IsSuccessRecord(results[k])
              /\ results[k].Status_Code = args.status_filter[1]
        /\ Len(results) =
              Cardinality({i \in Submitted :
                              futures[i].ret.status_code = args.status_filter})

\* C7: at most min(N, 10) probes are in flight (attempting or sleeping).
C7_InFlightBound ==
    Cardinality(InFlight) <= Min(N, 10)

\* C7 witness: more URLs than workers, every worker busy and a probe waiting.
C7_Witness ==
    /\ N > 10
    /\ Cardinality(InFlight) = 10
    /\ Queued # {}

\* C8: with a retry ceiling of 0 a finished probe has issued exactly one GET,
\* and a failed one does not carry "Max retries reached".
C8_ZeroRetriesOneAttempt ==
    \A i \in Submitted :
        (args.retries = 0 /\ Done(i)) =>
            /\ futures[i].gets = 1
            /\ Failed(i) => futures[i].ret.redirection # <<"Max retries reached">>

\* C9: a probe whose attempts all failed has returned the Failure outcome
\* as a value and stopped nothing: main is not aborted, a sibling whose GET
\* was answered has its Success outcome, and when check_urls has returned
\* every URL was submitted, attempted, finished and yielded; with no filter
\* the failed probe has its Failure record and every sibling its own record.
C9_FailureIsContained ==
    \A i \in Submitted :
        (AlwaysFailed(i) /\ Failed(i)) =>
            /\ pc # "aborted"
            /\ futures[i].ret = Failure
            /\ \A j \in Submitted \ {i} :
                  (futures[j].hist # <<>>
                      /\ futures[j].hist[Len(futures[j].hist)] = "ok")
                  => Succeeded(j)
            /\ pc = "done" =>
                  /\ Len(futures) = N
                  /\ \A j \in 1..N :
                        Done(j) /\ futures[j].yielded /\ futures[j].gets >= 1
                  /\ args.status_filter = None =>
                        /\ \E k \in 1..Len(results) :
                              results[k] = [URL |-> args.urls[i],
                                            Error |-> <<"Max retries reached">>]
                        /\ \A j \in 1..N : \E k \in 1..Len(results) :
                              /\ results[k].URL = args.urls[j]
                              /\ IsSuccessRecord(results[k]) <=> Succeeded(j)
                              /\ IsSuccessRecord(results[k]) =>
                                    results[k].Status_Code
                                        = futures[j].ret.status_code[1]

\* C9 witness: a finished run in which the first URL failed on every attempt
\* and the second, another URL, succeeded.
C9_Witness ==
    /\ pc = "done"
    /\ N = 2
    /\ args.urls[1] # args.urls[2]
    /\ args.status_filter = None
    /\ AlwaysFailed(1) /\ Failed(1)
    /\ Succeeded(2)
    /\ \E k \in 1..Len(results) : IsSuccessRecord(results[k])

\* C10: on every Success outcome the description is "Redirected to: " with
\* the transport's final URL when that differs from the requested URL, and
\* "No redirection" when it is the same; the record carries that description.
C10_Redirection ==
    /\ \A i \in Submitted :
          Succeeded(i) =>
              LET f == futures[i]
              IN  /\ f.final_url # args.urls[i] =>
                        f.ret.redirection = <<"Redirected to: ", f.final_url>>
                  /\ f.final_url = args.urls[i] =>
                        f.ret.redirection = <<"No redirection">>
    /\ \A k \in 1..Len(results) :
          IsSuccessRecord(results[k]) =>
              \E i \in Submitted :
                  /\ Succeeded(i)
                  /\ args.urls[i] = results[k].URL
                  /\ results[k].Redirection =
                        IF futures[i].final_url # args.urls[i]
                        THEN <<"Redirected to: ", futures[i].final_url>>
                        ELSE <<"No redirection">>

\* C10 witness: one probe redirected to another URL, and one whose final URL
\* is the requested one although it is the redirect target of the other.
C10_Witness ==
    \E i, j \in Submitted :
        /\ Succeeded(i) /\ Succeeded(j)
        /\ futures[i].final_url # args.urls[i]
        /\ futures[j].final_url = args.urls[j]
        /\ futures[i].final_url = futures[j].final_url

\* C11: the load time of a Success outcome is the duration of the GET that
\* was answered: the clock at its end minus the clock at its start.
C11_ElapsedOfLastAttempt ==
    \A i \in Submitted :
        Succeeded(i) =>
            LET f == futures[i]
            IN  f.ret.load_time[1] = f.ends[Len(f.ends)] - f.starts[Len(f.starts)]

\* C12: under fairness every submitted probe eventually is terminal and
\* check_urls, once entered, eventually returns; it has returned only when
\* all N probes were submitted and are terminal; and no step removes a
\* future, changes its URL, or takes a terminal future's outcome away.
C12_EveryProbeTerminates ==
    /\ \A i \in 1..MaxUrls : (i \in Submitted) ~> Done(i)
    /\ (pc = "submit") ~> (pc = "done")
    /\ [](pc = "done" => Len(futures) = N /\ \A i \in 1..N : Done(i))
    /\ [][/\ Len(futures') >= Len(futures)
          /\ \A i \in Submitted :
                /\ futures'[i].url = futures[i].url
                /\ Done(i) => /\ futures'[i].st = "done"
                              /\ futures'[i].ret = futures[i].ret]_vars

\* C12 witness: check_urls has returned from a run in which a probe slept
\* between retries and failed, and another was answered.
C12_Witness ==
    /\ pc = "done"
    /\ N >= 2
    /\ \E i, j \in Submitted :
          /\ Failed(i) /\ futures[i].sleeps >= 1
          /\ Succeeded(j) /\ futures[j].sleeps = 0

\* The GETs of call i that were issued and have not ended.
GetsInFlight(i) == Len(futures[i].starts) - Len(futures[i].ends)

\* Attempt k + 1 of call i started after attempt k had failed and a full
\* retry delay had passed since.
InSequence(i) ==
    LET f == futures[i]
    IN  /\ GetsInFlight(i) \in {0, 1}
        /\ GetsInFlight(i) = 1 <=> f.st = "attempting"
        /\ \A k \in 1..Len(f.ends) : f.starts[k] <= f.ends[k]
        /\ \A k \in 1..(Len(f.starts) - 1) :
              /\ k <= Len(f.ends)
              /\ f.hist[k] = "error"
              /\ f.starts[k + 1] >= f.ends[k] + args.retry_delay

\* C13 as stated: for each URL at most one GET is in flight, and the
\* attempts of every call are in sequence.
C13_OneGetPerUrl ==
    /\ \A u \in ValidUrls :
          Cardinality({i \in Submitted :
                          args.urls[i] = u /\ GetsInFlight(i) > 0}) <= 1
    /\ \A i \in Submitted : InSequence(i)

\* C13, amended: for each submitted entry of the URL list at most one GET
\* is in flight, attempt k + 1 starts only after attempt k has failed and a
\* full retry delay has passed, whatever the other workers do meanwhile.
C13_OneGetPerEntry ==
    \A i \in Submitted : InSequence(i)

\* C13 witness: two calls with a GET in flight each, one of them on its
\* second attempt after a retry delay.
C13_Witness ==
    \E i, j \in Submitted :
        /\ i # j
        /\ futures[i].st = "attempting" /\ futures[i].gets = 2
        /\ futures[j].st = "attempting"
        /\ args.retry_delay > 0

\* C14: every step that changes the result list is one pass of the
\* collecting loop of the main thread: it appends exactly one record, for
\* one future that it marks as yielded, and no worker takes a step in it; so
\* the workers never write the list and two insertions never overlap.
C14_SingleWriter ==
    [][results' # results =>
          /\ pc = "collect" /\ pc' = "collect"
          /\ Len(results') = Len(results) + 1
          /\ SubSeq(results', 1, Len(results)) = results
          /\ \E i \in Submitted :
                /\ ~futures[i].yielded
                /\ futures' = [futures EXCEPT ![i].yielded = TRUE]]_vars

\* C14 witness: a record is in the list while two more calls have finished
\* and wait to be collected.
C14_Witness ==
    /\ Len(results) >= 1
    /\ Len(waiter) >= 2

\* The place of the only record of URL u in the result list.
PlaceOf(u) == CHOOSE k \in 1..Len(results) : results[k].URL = u

\* C15: a future is yielded only when its probe is terminal; if A was
\* terminal when B, not finished while as_completed was running, became
\* terminal, then A is yielded before B, wherever they stand in the list of
\* URLs; and with no filter and each of the two URLs given once, A's record
\* stands before B's in the result list.
C15_CompletionOrder ==
    \A b \in Submitted :
        futures[b].yielded =>
            /\ Done(b)
            /\ \A a \in futures[b].before :
                  /\ futures[a].yielded
                  /\ (/\ args.status_filter = None
                      /\ EntriesOf(args.urls[a]) = {a}
                      /\ EntriesOf(args.urls[b]) = {b})
                     => PlaceOf(args.urls[a]) < PlaceOf(args.urls[b])

\* C15 witness: the second URL of the list finished first and the first
\* one during the collection; the results are in that order.
C15_Witness ==
    /\ N = 2
    /\ args.status_filter = None
    /\ Len(futures) = 2 /\ Len(results) = 2
    /\ futures[1].yielded /\ futures[2].yielded
    /\ futures[1].before = {2}
    /\ results[1].URL = args.urls[2]
    /\ results[2].URL = args.urls[1]
    /\ args.urls[1] # args.urls[2]

Descriptions ==
    {<<"No redirection">>} \cup {<<"Redirected to: ", u>> : u \in ValidUrls}

\* C16: every record is either a Failure record (URL and Error only) or a
\* Success record (URL, Status Code, Redirection and Load Time, no Error),
\* and every returned outcome is either (None, "Max retries reached", None)
\* or a status code with a redirection description and a load time.
C16_SuccessXorFailure ==
    /\ \A k \in 1..Len(results) :
          \/ /\ IsFailureRecord(results[k])
             /\ results[k].Error = <<"Max retries reached">>
          \/ /\ IsSuccessRecord(results[k])
             /\ results[k].Status_Code \in StatusCodes
             /\ results[k].Redirection \in Descriptions
             /\ results[k].Load_Time[1] >= 0
    /\ \A i \in Submitted :
          Done(i) =>
              \/ futures[i].ret = Failure
              \/ /\ futures[i].ret.status_code # None
                 /\ futures[i].ret.redirection \in Descriptions
                 /\ futures[i].ret.load_time # None

\* C16 witness: a result list with a Failure record and a Success record.
C16_Witness ==
    /\ Len(results) = 2
    /\ IsFailureRecord(results[1])
    /\ IsSuccessRecord(results[2])
    /\ results[2].Redirection # <<"No redirection">>

\* Two states of a call that differ at most in the last message logged.
SameButLog(f, g) == [f EXCEPT !.log = ""] = [g EXCEPT !.log = ""]

\* C17: wherever a GET is pending, its ending in a Timeout and its ending
\* in another RequestException leave the call in the same state but for
\* the message logged: same attempt counter, GETs, sleeps, clock and
\* outcome; so exchanging the kind of any failed attempt changes nothing
\* that follows.
C17_TimeoutLikeOtherErrors ==
    \A i \in Submitted :
        futures[i].st = "attempting" =>
            SameButLog(on_error(futures[i], Timeout, args.retries),
                       on_error(futures[i], RequestException, args.retries))

\* C17 witness: two calls for the same URL sleep after their first failure,
\* one after a Timeout and one after another error, and are otherwise in
\* the same state.
C17_Witness ==
    /\ Len(futures) = 2
    /\ futures[1].st = "sleeping"
    /\ futures[1].log = "Timeout occurred"
    /\ futures[2].log = "Error for"
    /\ SameButLog(futures[1], futures[2])

\* The record of entry i as its input and the behaviour of its transport
\* (how many GETs failed, and the answer if one came) determine it.
ExpectedRecord(i) ==
    LET f == futures[i]
        n == Len(f.hist)
    IN  IF f.answer = <<>>
        THEN [URL |-> args.urls[i], Error |-> <<"Max retries reached">>]
        ELSE [URL |-> args.urls[i],
              Status_Code |-> f.answer[1].status_code,
              Redirection |->
                  IF f.answer[1].url = args.urls[i] THEN <<"No redirection">>
                  ELSE <<"Redirected to: ", f.answer[1].url>>,
              Load_Time |-> <<n * AttemptTicks + (n - 1) * args.retry_delay,
                              "seconds">>]

\* Whether the filter retains entry i (a filter of 0 counts as none).
ExpectedKept(i) ==
    \/ args.status_filter \in {None, Some(0)}
    \/ /\ futures[i].answer # <<>>
       /\ futures[i].answer[1].status_code = args.status_filter[1]

\* C18: when check_urls has returned, the result list holds, for every
\* record, as many copies as there are retained entries whose input and
\* transport behaviour give that record: the multiset of records does not
\* depend on the order in which the workers ran and finished.
C18_TimingIndependent ==
    pc = "done" =>
        \A rec \in {ExpectedRecord(i) : i \in 1..N}
                      \cup {results[k] : k \in 1..Len(results)} :
            Occurrences(results, rec) =
                Cardinality({i \in 1..N :
                                ExpectedKept(i) /\ ExpectedRecord(i) = rec})

\* C18 witness: a returned run with a filter in which the second URL, which
\* finished first, is dropped and the first URL, which finished during the
\* collection, is retained.
C18_Witness ==
    /\ pc = "done"
    /\ N = 2
    /\ args.status_filter = Some(404)
    /\ futures[1].before = {2}
    /\ Succeeded(1) /\ Succeeded(2)
    /\ Len(results) = 1
    /\ results[1].URL = args.urls[1]

\* C19: the attempt counter of every call stays within 0..retries; a GET is
\* pending only while the counter is below retries and no answer has come,
\* so none is issued after a success or at the ceiling; and a call whose
\* first k GETs failed and whose next one was answered, k < retries, has
\* issued exactly k+1 GETs, slept exactly k times and returned Success with
\* the status code and final URL of that answer.
C19_RetryThenSuccess ==
    \A i \in Submitted :
        LET f == futures[i]
            n == Len(f.hist)
        IN  /\ f.attempt \in 0..args.retries
            /\ f.gets <= args.retries
            /\ f.st = "attempting" =>
                   /\ f.attempt < args.retries
                   /\ f.answer = <<>>
                   /\ f.gets = f.attempt + 1
            /\ \A k \in 1..(n - 1) : f.hist[k] = "error"
            /\ (n >= 1 /\ f.hist[n] = "ok") =>
                   /\ n - 1 < args.retries
                   /\ f.attempt = n - 1
                   /\ f.st = "done"
                   /\ f.gets = n
                   /\ f.sleeps = n - 1
                   /\ f.ret.status_code = Some(f.answer[1].status_code)
                   /\ f.final_url = f.answer[1].url
                   /\ f.ret.redirection = redirection_of(f.url, f.answer[1].url)

\* C19 witness: a call whose first GET failed and whose second, the last
\* one allowed, was answered 404 after one delay.
C19_Witness ==
    /\ args.retries = 2
    /\ Len(futures) >= 1
    /\ futures[1].hist = <<"error", "ok">>
    /\ futures[1].gets = 2 /\ futures[1].sleeps = 1
    /\ futures[1].ret.status_code = Some(404)
    /\ Succeeded(1)

\* What the except clauses log for the two kinds of transport error.
AttemptErrors == {error_log(Timeout), error_log(RequestException)}

\* C20: with retries >= 1, every call that returned a Failure returned the
\* description "Max retries reached" and every failure record in the result
\* list has exactly that in its Error field; the error of an attempt shows
\* only in the log, as the last message of a worker waiting to retry.
C20_FailureDescription ==
    args.retries >= 1 =>
        /\ \A i \in Submitted :
              /\ Failed(i) =>
                    /\ futures[i].ret.redirection = <<"Max retries reached">>
                    /\ \A k \in 1..Len(futures[i].ret.redirection) :
                          futures[i].ret.redirection[k] \notin AttemptErrors
              /\ futures[i].st = "sleeping" => futures[i].log \in AttemptErrors
        /\ \A k \in 1..Len(results) :
              IsFailureRecord(results[k]) =>
                  results[k].Error = <<"Max retries reached">>

\* C20 witness: check_urls has returned the failure record of a call whose
\* two GETs both raised.
C20_Witness ==
    /\ pc = "done"
    /\ args.retries = 2
    /\ Failed(1)
    /\ futures[1].hist = <<"error", "error">>
    /\ \E k \in 1..Len(results) :
          results[k] = [URL |-> args.urls[1],
                        Error |-> <<"Max retries reached">>]

=============================================================================
